---- MODULE Spec2Model ----
(***************************************************************************)
(* Model of py_opt_cli (src/py_opt_cli/__init__.py): the attrs document    *)
(* classes with their on-disk mapping, the LazyCollection view of a remote *)
(* endpoint, and the push_object command.                                  *)
(*                                                                         *)
(* Text is a sequence of one-character strings, so that slugify and the    *)
(* json formatting act on characters.  Field names, file extensions and    *)
(* the values of discriminators are written as one token.                  *)
(***************************************************************************)
EXTENDS Integers, Sequences, FiniteSets, TLC

VARIABLES
    doc_cls,        \* class of the document under test
    doc,            \* the document (an attrs instance: field name -> value)
    dirs,           \* directories on disk (set of paths)
    files,          \* regular files on disk (path -> content)
    doc_pc,         \* "new" -> "written" -> "read"
    read_result,    \* outcome of the last read_from_disk
    projection,     \* outcome of attr.asdict(doc, filter=modifiable)
    write_todo,     \* file-system calls a write_to_disk in progress has yet to make
    coll_cls,       \* LazyCollection.cls
    remote_pages,   \* the service: the listing of the endpoint, page by page
    link_style,     \* the service: which relations its link header carries
    _items,         \* LazyCollection._items
    coll_pc,        \* "idle", or "fetching" inside the loop of items()
    requests,       \* requests sent by the call in progress or last finished
    response,       \* the response to the last of them
    logged,         \* ids logged by LOG.exception in that call
    ret,            \* outcome of the last call, once it has finished
    items_log,      \* outcomes of the finished calls of items(), in order
    push_pc,        \* position of push_object
    local,          \* push_object: the document read from disk
    remote,         \* push_object: the document fetched from the service
    local_doc,      \* push_object: attr.asdict(local, filter=modifiable)
    remote_doc,     \* push_object: attr.asdict(remote, filter=modifiable)
    echoed,         \* push_object: what it printed
    confirmed       \* push_object: "unasked", "pending", "yes" or "no"

docVars == <<doc_cls, doc, dirs, files, doc_pc, read_result, projection, write_todo>>

collVars ==
    <<coll_cls, remote_pages, link_style, _items, coll_pc, response, requests,
      logged, ret, items_log>>

pushVars == <<push_pc, local, remote, local_doc, remote_doc, echoed, confirmed>>

vars ==
    <<doc_cls, doc, dirs, files, doc_pc, read_result, projection, write_todo,
      coll_cls, remote_pages, link_style, _items, coll_pc, response, requests, logged,
      ret, items_log, push_pc, local, remote, local_doc, remote_doc, echoed,
      confirmed>>

-----------------------------------------------------------------------------
(* Constants of the module                                                 *)

None == <<"None">>

META_FILE == <<".meta.yaml">>

Ok(v) == [ok |-> TRUE, val |-> v, err |-> "none"]

Raise(e) == [ok |-> FALSE, val |-> None, err |-> e]

-----------------------------------------------------------------------------
(* Field descriptors: attr.ib(...) with its metadata and default           *)

Attrib(n) == [name |-> n, read_only |-> FALSE, kind |-> "plain", of |-> "", required |-> TRUE]

AttribDefault(n) == [name |-> n, read_only |-> FALSE, kind |-> "plain", of |-> "", required |-> FALSE]

ReadOnly(n) == [name |-> n, read_only |-> TRUE, kind |-> "plain", of |-> "", required |-> TRUE]

ReadOnlyDefault(n) == [name |-> n, read_only |-> TRUE, kind |-> "plain", of |-> "", required |-> FALSE]

Serialized(n, s) == [name |-> n, read_only |-> FALSE, kind |-> "serializer", of |-> s, required |-> TRUE]

SerializedDefault(n, s) == [name |-> n, read_only |-> FALSE, kind |-> "serializer", of |-> s, required |-> FALSE]

subdocuments(n, c) == [name |-> n, read_only |-> FALSE, kind |-> "collection", of |-> c, required |-> TRUE]

subdocument(n, c) == [name |-> n, read_only |-> FALSE, kind |-> "subdocument", of |-> c, required |-> TRUE]

WebSnippet ==
    << ReadOnly("code_revision"), Attrib("enable_force_variation"),
       Attrib("exclude_disabled_experiments"), Attrib("exclude_names"),
       Attrib("include_jquery"), Attrib("ip_anonymization"),
       ReadOnly("js_file_size"), Attrib("library"), AttribDefault("ip_filter"),
       SerializedDefault("project_javascript", "StaticContentSerializer") >>

Project ==
    << Attrib("name"), Attrib("confidence_threshold"), Attrib("platform"),
       Attrib("sdks"), ReadOnly("status"), ReadOnly("account_id"),
       ReadOnly("created"), Attrib("id"), ReadOnly("is_classic"),
       ReadOnly("last_modified"), subdocument("web_snippet", "WebSnippet"),
       ReadOnlyDefault("socket_token"), AttribDefault("dcp_service_id") >>

Audience ==
    << ReadOnly("project_id"), Attrib("archived"),
       Serialized("conditions", "ConditionSerializer"), Attrib("description"),
       ReadOnly("is_classic"), Attrib("name"), Attrib("segmentation"),
       ReadOnly("created"), Attrib("id"), ReadOnly("last_modified") >>

Page ==
    << Attrib("edit_url"), Attrib("name"), ReadOnly("project_id"),
       Attrib("archived"), Attrib("category"), Attrib("key"),
       ReadOnly("created"), Attrib("id"), ReadOnly("last_modified"),
       SerializedDefault("conditions", "ConditionSerializer"),
       SerializedDefault("activation_code", "StaticContentSerializer"),
       AttribDefault("activation_type"), AttribDefault("page_type") >>

Event ==
    << Attrib("archived"), Attrib("category"), Attrib("event_type"),
       Attrib("name"), ReadOnly("project_id"), ReadOnly("created"),
       ReadOnly("id"), ReadOnly("is_classic"), AttribDefault("config"),
       AttribDefault("description"), ReadOnlyDefault("is_editable"),
       AttribDefault("key"), AttribDefault("page_id"),
       ReadOnlyDefault("last_modified") >>

Change ==
    << Attrib("dependencies"), Attrib("id"), Attrib("type"),
       AttribDefault("async"), AttribDefault("allow_additional_redirect"),
       AttribDefault("attributes"), AttribDefault("config"),
       AttribDefault("css"), AttribDefault("destination"),
       AttribDefault("destination_function"), ReadOnlyDefault("extension_id"),
       AttribDefault("name"), AttribDefault("operator"),
       AttribDefault("preserve_parameters"), AttribDefault("rearrange"),
       AttribDefault("selector"), ReadOnlyDefault("src"),
       SerializedDefault("value", "StaticContentSerializer") >>

Action ==
    << subdocuments("changes", "Change"), Attrib("page_id"),
       AttribDefault("share_link") >>

Variation ==
    << Attrib("weight"), subdocuments("actions", "Action"), Attrib("archived"),
       Attrib("variation_id"), ReadOnly("status"), AttribDefault("share_link"),
       AttribDefault("key"), AttribDefault("name") >>

Experiment ==
    << subdocuments("changes", "Change"), ReadOnly("created"), Attrib("id"),
       ReadOnly("is_classic"), ReadOnly("last_modified"), Attrib("metrics"),
       Attrib("project_id"), ReadOnly("status"), Attrib("type"),
       subdocuments("variations", "Variation"),
       AttribDefault("allocation_policy"), AttribDefault("page_ids"),
       SerializedDefault("audience_conditions", "ConditionSerializer"),
       AttribDefault("campaign_id"), AttribDefault("description"),
       ReadOnlyDefault("earliest"), AttribDefault("holdback"),
       AttribDefault("key"), ReadOnlyDefault("latest"), AttribDefault("name"),
       AttribDefault("schedule"), AttribDefault("url_targeting") >>

Classes ==
    {"WebSnippet", "Project", "Audience", "Page", "Event", "Change", "Action",
     "Variation", "Experiment"}

\* attr.fields(cls)
fields(cls) ==
    CASE cls = "WebSnippet" -> WebSnippet
      [] cls = "Project" -> Project
      [] cls = "Audience" -> Audience
      [] cls = "Page" -> Page
      [] cls = "Event" -> Event
      [] cls = "Change" -> Change
      [] cls = "Action" -> Action
      [] cls = "Variation" -> Variation
      [] cls = "Experiment" -> Experiment

\* the names of the fields of each class, and each field by its name
NamesOfFields ==
    [c \in Classes |-> {fields(c)[i].name : i \in DOMAIN fields(c)}]

FieldsByName ==
    [c \in Classes |->
        [n \in NamesOfFields[c] |->
            CHOOSE f \in {fields(c)[i] : i \in DOMAIN fields(c)} : f.name = n]]

FieldNames(cls) == NamesOfFields[cls]

Field(cls, n) == FieldsByName[cls][n]

\* `value is None`: only plain and serialized fields can hold None, the
\* converters of nested fields reject it
IsNone(field, value) == field.kind \in {"plain", "serializer"} /\ value = None

-----------------------------------------------------------------------------
(* The attrs-generated __init__ of a class, with the field converters      *)

RECURSIVE Construct(_, _)
Construct(cls, kwargs) ==
    LET fs == fields(cls)
        unexpected == \E k \in DOMAIN kwargs : k \notin FieldNames(cls)
        missing == \E i \in DOMAIN fs : fs[i].required /\ fs[i].name \notin DOMAIN kwargs
        convert(f) ==
            IF f.name \notin DOMAIN kwargs THEN Ok(None)
            ELSE IF f.kind = "collection" THEN
                LET docs == kwargs[f.name]
                    objs == [i \in DOMAIN docs |-> Construct(f.of, docs[i])]
                IN IF \E i \in DOMAIN docs : ~objs[i].ok THEN Raise("TypeError")
                   ELSE Ok([i \in DOMAIN docs |-> objs[i].val])
            ELSE IF f.kind = "subdocument" THEN Construct(f.of, kwargs[f.name])
            ELSE Ok(kwargs[f.name])
    IN IF unexpected \/ missing THEN Raise("TypeError")
       ELSE IF \E i \in DOMAIN fs : ~convert(fs[i]).ok THEN Raise("TypeError")
       ELSE Ok([n \in FieldNames(cls) |-> convert(Field(cls, n)).val])

-----------------------------------------------------------------------------
(* Filters and attr.asdict                                                 *)

\* a filter that forgets the test of the value
modifiable_keeps_none(field, value) == ~field.read_only

modifiable(field, value) == ~field.read_only /\ ~IsNone(field, value)

non_null(field, value) == ~IsNone(field, value)

\* the filter of a call of attr.asdict; "all" is a call without filter
Keep(filter, field, value) ==
    CASE filter = "modifiable" -> modifiable(field, value)
      [] filter = "non_null" -> non_null(field, value)
      [] filter = "all" -> TRUE

\* attr.asdict(inst, filter=...): recurses into attrs instances and into
\* lists of them, with the same filter
RECURSIVE asdict(_, _, _)
asdict(cls, inst, filter) ==
    LET kept == {n \in FieldNames(cls) : Keep(filter, Field(cls, n), inst[n])}
        value(f) ==
            IF f.kind = "collection"
            THEN [i \in DOMAIN inst[f.name] |-> asdict(f.of, inst[f.name][i], filter)]
            ELSE IF f.kind = "subdocument" THEN asdict(f.of, inst[f.name], filter)
            ELSE inst[f.name]
    IN [n \in kept |-> value(Field(cls, n))]

as_non_null_dict(cls, obj) == asdict(cls, obj, "non_null")

-----------------------------------------------------------------------------
(* Text helpers                                                            *)

\* str(x), as "{}".format(x) renders it
str(x) == IF x = None THEN <<"N", "o", "n", "e">> ELSE x

slugify(directory) ==
    [i \in DOMAIN directory |-> IF directory[i] = " " THEN "_" ELSE directory[i]]

\* the dirname property of each class (None for WebSnippet)
dirname(cls, obj) ==
    CASE cls = "WebSnippet" -> None
      [] cls = "Change" -> slugify(obj.id)
      [] cls = "Action" -> slugify(str(obj.page_id))
      [] cls = "Variation" -> slugify(str(obj.name) \o <<" ">> \o str(obj.variation_id))
      [] OTHER -> slugify(str(obj.name) \o <<" ">> \o str(obj.id))

RECURSIVE Flatten(_)
Flatten(seqs) == IF seqs = <<>> THEN <<>> ELSE Head(seqs) \o Flatten(Tail(seqs))

-----------------------------------------------------------------------------
(* json, on the documents the model uses: numbers and flat lists of them   *)

Whitespace == {" ", "\n"}

JsonDigits == {"1", "2"}

StripWs(s) == SelectSeq(s, LAMBDA c : c \notin Whitespace)

\* a number, or a bracketed comma-separated list of numbers
IsJsonCompact(s) ==
    \/ Len(s) = 1 /\ s[1] \in JsonDigits
    \/ s = <<"[", "]">>
    \/ /\ Len(s) >= 3 /\ Len(s) % 2 = 1
       /\ s[1] = "[" /\ s[Len(s)] = "]"
       /\ \A i \in 2..(Len(s) - 1) : IF i % 2 = 0 THEN s[i] \in JsonDigits ELSE s[i] = ","

\* whitespace is insignificant between the tokens of these documents, and
\* every token is one character
IsJson(s) == IsJsonCompact(StripWs(s))

\* json.loads / json.load: the parsed value, held as its compact text
json_loads(s) == IF IsJson(s) THEN Ok(StripWs(s)) ELSE Raise("JSONDecodeError")

\* json.dumps(v): separators (', ', ': ')
json_dumps(v) == Flatten([i \in DOMAIN v |-> IF v[i] = "," THEN <<",", " ">> ELSE <<v[i]>>])

\* json.dump(v, indent=2)
json_dump_indent2(v) ==
    IF Len(v) <= 2 THEN v
    ELSE Flatten([i \in DOMAIN v |->
            CASE v[i] = "[" -> <<"[", "\n", " ", " ">>
              [] v[i] = "," -> <<",", "\n", " ", " ">>
              [] v[i] = "]" -> <<"\n", "]">>
              [] OTHER -> <<v[i]>>])

-----------------------------------------------------------------------------
(* The file system                                                         *)

\* a path is a sequence of names; root / name
Join(root, name) == Append(root, name)

Prefixes(path) == {SubSeq(path, 1, n) : n \in 0..Len(path)}

\* Path.mkdir(parents=True, exist_ok=True)
Mkdir(path) == [op |-> "mkdir", path |-> path, data |-> None]

\* open('w') then write: the file holds exactly data afterwards
WriteFile(path, data) == [op |-> "write", path |-> path, data |-> data]

ApplyOp(fs, o) ==
    IF o.op = "mkdir"
    THEN [dirs |-> fs.dirs \cup Prefixes(o.path), files |-> fs.files]
    ELSE [dirs |-> fs.dirs,
          files |-> [p \in DOMAIN fs.files \cup {o.path} |->
                        IF p = o.path THEN o.data ELSE fs.files[p]]]

RECURSIVE ApplyOps(_, _)
ApplyOps(fs, ops) == IF ops = <<>> THEN fs ELSE ApplyOps(ApplyOp(fs, Head(ops)), Tail(ops))

is_dir(fs, path) == path \in fs.dirs

exists(fs, path) == path \in fs.dirs \/ path \in DOMAIN fs.files

-----------------------------------------------------------------------------
(* Serializers                                                             *)

ConditionSerializer_filename(root, fieldname) == Join(root, <<fieldname, ".", "json">>)

\* json.load consumes the whole file before it raises, so the read() of the
\* except branch starts at end of file
ConditionSerializer_read_rest(content) == <<>>

ConditionSerializer_read_from_disk(fs, root, fieldname) ==
    LET filename == ConditionSerializer_filename(root, fieldname)
    IN IF filename \notin DOMAIN fs.files THEN Raise("FileNotFoundError")
       ELSE LET content == fs.files[filename]
                parsed == json_loads(content)
            IN IF parsed.ok THEN Ok(json_dumps(parsed.val))
               ELSE Ok(ConditionSerializer_read_rest(content))

ConditionSerializer_write_to_disk(root, obj, fieldname) ==
    LET data == obj[fieldname]
        parsed == json_loads(data)
    IN IF data = None THEN <<>>
       ELSE IF parsed.ok
            THEN <<WriteFile(ConditionSerializer_filename(root, fieldname),
                             json_dump_indent2(parsed.val))>>
            ELSE <<WriteFile(ConditionSerializer_filename(root, fieldname), data)>>

\* a filename that leaves insert_image to the default
StaticContentSerializer_filename_html_only(root, cls, obj, fieldname) ==
    LET extension ==
            IF "type" \in FieldNames(cls)
            THEN CASE obj.type = <<"custom_css">> -> "css"
                   [] obj.type = <<"custom_code">> -> "js"
                   [] obj.type = <<"insert_html">> -> "html"
                   [] OTHER -> "txt"
            ELSE IF fieldname \in {"activation_code", "project_javascript"} THEN "js"
                 ELSE "txt"
    IN Join(root, <<fieldname, ".", extension>>)

StaticContentSerializer_filename(root, cls, obj, fieldname) ==
    LET extension ==
            IF "type" \in FieldNames(cls)
            THEN CASE obj.type = <<"custom_css">> -> "css"
                   [] obj.type = <<"custom_code">> -> "js"
                   [] obj.type \in {<<"insert_html">>, <<"insert_image">>} -> "html"
                   [] OTHER -> "txt"
            ELSE IF fieldname \in {"activation_code", "project_javascript"} THEN "js"
                 ELSE "txt"
    IN Join(root, <<fieldname, ".", extension>>)

StaticContentSerializer_read_from_disk(fs, root, cls, obj, fieldname) ==
    LET filename == StaticContentSerializer_filename(root, cls, obj, fieldname)
    IN IF filename \notin DOMAIN fs.files THEN Raise("FileNotFoundError")
       ELSE Ok(fs.files[filename])

StaticContentSerializer_write_to_disk(root, cls, obj, fieldname) ==
    LET data == obj[fieldname]
    IN IF data = None THEN <<>>
       ELSE <<WriteFile(StaticContentSerializer_filename(root, cls, obj, fieldname), data)>>

-----------------------------------------------------------------------------
(* OptimizelyDocument.write_to_disk, as the file operations it performs    *)

Docroot(cls, obj, root) ==
    IF dirname(cls, obj) # None THEN Join(root, dirname(cls, obj)) ELSE root

\* the mapping handed to write_meta_file
MetaDocument(cls, obj) ==
    LET meta == as_non_null_dict(cls, obj)
        collections == {n \in FieldNames(cls) : Field(cls, n).kind = "collection"}
        popped == {n \in FieldNames(cls) : Field(cls, n).kind \in {"subdocument", "serializer"}}
    IN [n \in (DOMAIN meta \cup collections) \ popped |->
            IF n \in collections
            THEN [i \in DOMAIN obj[n] |-> dirname(Field(cls, n).of, obj[n][i])]
            ELSE meta[n]]

\* yaml.safe_dump of the entries that are not None
write_meta_file(root, meta_document) == WriteFile(Join(root, META_FILE), meta_document)

\* a write that puts the metadata file down before the fields
RECURSIVE write_to_disk_meta_first(_, _, _)
write_to_disk_meta_first(cls, obj, root) ==
    LET docroot == Docroot(cls, obj, root)
        fs == fields(cls)
        fieldOps(f) ==
            IF f.kind = "collection"
            THEN Flatten([i \in DOMAIN obj[f.name] |->
                            write_to_disk_meta_first(f.of, obj[f.name][i],
                                                     Join(docroot, <<f.name>>))])
            ELSE IF f.kind = "subdocument"
            THEN write_to_disk_meta_first(f.of, obj[f.name], Join(docroot, <<f.name>>))
            ELSE IF f.kind = "serializer"
            THEN IF f.of = "ConditionSerializer"
                 THEN ConditionSerializer_write_to_disk(docroot, obj, f.name)
                 ELSE StaticContentSerializer_write_to_disk(docroot, cls, obj, f.name)
            ELSE <<>>
    IN <<Mkdir(docroot)>>
       \o <<write_meta_file(docroot, MetaDocument(cls, obj))>>
       \o Flatten([i \in DOMAIN fs |-> fieldOps(fs[i])])

RECURSIVE write_to_disk(_, _, _)
write_to_disk(cls, obj, root) ==
    LET docroot == Docroot(cls, obj, root)
        fs == fields(cls)
        fieldOps(f) ==
            IF f.kind = "collection"
            THEN Flatten([i \in DOMAIN obj[f.name] |->
                            write_to_disk(f.of, obj[f.name][i], Join(docroot, <<f.name>>))])
            ELSE IF f.kind = "subdocument"
            THEN write_to_disk(f.of, obj[f.name], Join(docroot, <<f.name>>))
            ELSE IF f.kind = "serializer"
            THEN IF f.of = "ConditionSerializer"
                 THEN ConditionSerializer_write_to_disk(docroot, obj, f.name)
                 ELSE StaticContentSerializer_write_to_disk(docroot, cls, obj, f.name)
            ELSE <<>>
    IN <<Mkdir(docroot)>>
       \o Flatten([i \in DOMAIN fs |-> fieldOps(fs[i])])
       \o <<write_meta_file(docroot, MetaDocument(cls, obj))>>

-----------------------------------------------------------------------------
(* OptimizelyDocument.read_from_disk                                       *)

read_meta_file(fs, root) ==
    IF Join(root, META_FILE) \in DOMAIN fs.files
    THEN Ok(fs.files[Join(root, META_FILE)])
    ELSE Raise("FileNotFoundError")

Reverse(q) == [i \in DOMAIN q |-> q[Len(q) + 1 - i]]

\* a loop that takes the recorded names from the last to the first
child_dirs_reversed(fs, subdir, dirnames) ==
    Reverse(SelectSeq(dirnames, LAMBDA d : is_dir(fs, Join(subdir, d))))

\* for dirname in meta.get(field.name): ... if not docdir.is_dir(): continue
child_dirs(fs, subdir, dirnames) ==
    SelectSeq(dirnames, LAMBDA d : is_dir(fs, Join(subdir, d)))

RECURSIVE read_from_disk(_, _, _)
read_from_disk(fs, cls, root) ==
    LET loaded == read_meta_file(fs, root)
        meta0 == loaded.val
        names == FieldNames(cls)
        collections == {n \in names : Field(cls, n).kind = "collection"}
        subdocs == {n \in names : Field(cls, n).kind = "subdocument"
                                   /\ is_dir(fs, Join(root, <<n>>))}
        \* iterating meta.get(name) when the key is missing iterates None
        badIter == \E n \in collections :
                      exists(fs, Join(root, <<n>>)) /\ n \notin DOMAIN meta0
        listed(n) ==
            IF exists(fs, Join(root, <<n>>))
            THEN child_dirs(fs, Join(root, <<n>>), meta0[n])
            ELSE <<>>
        children(n) ==
            [i \in DOMAIN listed(n) |->
                read_from_disk(fs, Field(cls, n).of, Join(Join(root, <<n>>), listed(n)[i]))]
        sub(n) == read_from_disk(fs, Field(cls, n).of, Join(root, <<n>>))
        \* the errors of the nested reads, in the order of the field loop
        childErrors ==
            SelectSeq(
                Flatten([k \in DOMAIN fields(cls) |->
                    LET n == fields(cls)[k].name
                    IN IF n \in collections
                       THEN [i \in DOMAIN listed(n) |-> children(n)[i].err]
                       ELSE IF n \in subdocs THEN <<sub(n).err>> ELSE <<>>]),
                LAMBDA e : e # "none")
        meta == [n \in DOMAIN meta0 \cup collections \cup subdocs |->
                    IF n \in collections
                    THEN [i \in DOMAIN listed(n) |->
                            as_non_null_dict(Field(cls, n).of, children(n)[i].val)]
                    ELSE IF n \in subdocs
                    THEN as_non_null_dict(Field(cls, n).of, sub(n).val)
                    ELSE meta0[n]]
        built == Construct(cls, meta)
        obj == built.val
        serialized == {n \in names : Field(cls, n).kind = "serializer"}
        content(n) ==
            IF Field(cls, n).of = "ConditionSerializer"
            THEN ConditionSerializer_read_from_disk(fs, root, n)
            ELSE StaticContentSerializer_read_from_disk(fs, root, cls, obj, n)
    IN IF ~loaded.ok THEN loaded
       ELSE IF badIter THEN Raise("TypeError")
       ELSE IF childErrors # <<>> THEN Raise(Head(childErrors))
       ELSE IF ~built.ok THEN built
       ELSE IF \E n \in serialized : ~content(n).ok THEN Raise("FileNotFoundError")
       ELSE Ok([n \in names |-> IF n \in serialized THEN content(n).val ELSE obj[n]])

-----------------------------------------------------------------------------
(* The documents the model draws from                                      *)

MaxChildren == 2

BoundedSeq(S, n) == UNION {[1..k -> S] : k \in 0..n}

With(obj, overrides) ==
    [n \in DOMAIN obj |-> IF n \in DOMAIN overrides THEN overrides[n] ELSE obj[n]]

V == <<"v">>

\* an instance with every required plain field set, every optional field
\* None and no children
RECURSIVE Blank(_)
Blank(cls) ==
    [n \in FieldNames(cls) |->
        LET f == Field(cls, n)
        IN IF f.kind = "collection" THEN <<>>
           ELSE IF f.kind = "subdocument" THEN Blank(f.of)
           ELSE IF f.required THEN V ELSE None]

Everyone == <<"e", "v", "e", "r", "y", "o", "n", "e">>

ConditionTexts ==
    {Everyone, <<"1">>, <<"[", "1", ",", " ", "2", "]">>, <<"[", "1", ",", "2", "]">>}

ContentTexts == {<<>>, <<"b", "o", "d", "y">>}

ChangeIds == {<<"c", "1">>, <<"c", " ", "1">>, <<"c", "_", "1">>}

ChangeTypes ==
    {<<"custom_css">>, <<"custom_code">>, <<"insert_html">>, <<"insert_image">>,
     <<"attribute">>}

Names == {<<"a">>, <<"a", " ", "b">>}

ChangeDocs ==
    {With(Blank("Change"), [id |-> i, type |-> t, value |-> v, src |-> s]) :
        i \in ChangeIds, t \in ChangeTypes, v \in ContentTexts \cup {None},
        s \in {None, V}}

NestedChanges ==
    {c \in ChangeDocs : c.type = <<"custom_css">> /\ c.src = V
                        /\ c.value \in {None, <<"b", "o", "d", "y">>}}

ActionDocs ==
    {With(Blank("Action"), [changes |-> cs]) :
        cs \in BoundedSeq(NestedChanges, MaxChildren)}

NestedActions ==
    {With(Blank("Action"), [changes |-> cs, page_id |-> p]) :
        cs \in BoundedSeq({c \in NestedChanges : c.id = <<"c", "1">>}, 1),
        p \in {<<"7">>, <<"8">>}}

VariationDocs ==
    {With(Blank("Variation"), [actions |-> as, name |-> n]) :
        as \in BoundedSeq(NestedActions, MaxChildren), n \in Names \cup {None}}

NestedVariations ==
    {v \in VariationDocs : Len(v.actions) <= 1 /\ v.name # <<"a">>
        /\ \A i \in DOMAIN v.actions : v.actions[i].page_id = <<"7">>
                                      /\ Len(v.actions[i].changes) = 1
                                      /\ v.actions[i].changes[1].value # None}

ExperimentDocs ==
    {With(Blank("Experiment"),
          [changes |-> cs, variations |-> vs, audience_conditions |-> c, name |-> <<"a">>]) :
        cs \in BoundedSeq({c \in NestedChanges : c.id = <<"c", "1">>}, 1),
        vs \in BoundedSeq(NestedVariations, MaxChildren),
        c \in ConditionTexts \cup {None}}

PageDocs ==
    {With(Blank("Page"), [name |-> n, conditions |-> c, activation_code |-> a]) :
        n \in Names, c \in ConditionTexts \cup {None}, a \in ContentTexts \cup {None}}

AudienceDocs ==
    {With(Blank("Audience"), [name |-> n, conditions |-> c]) :
        n \in Names, c \in ConditionTexts}

EventDocs ==
    {With(Blank("Event"), [name |-> n, key |-> k, is_editable |-> e]) :
        n \in Names, k \in {None, V}, e \in {None, V}}

WebSnippetDocs ==
    {With(Blank("WebSnippet"), [ip_filter |-> i, project_javascript |-> j]) :
        i \in {None, V}, j \in ContentTexts \cup {None}}

ProjectDocs ==
    {With(Blank("Project"), [name |-> n, web_snippet |-> w, socket_token |-> t]) :
        n \in Names, w \in WebSnippetDocs, t \in {None, V}}

Docs(cls) ==
    CASE cls = "WebSnippet" -> WebSnippetDocs
      [] cls = "Project" -> ProjectDocs
      [] cls = "Audience" -> AudienceDocs
      [] cls = "Page" -> PageDocs
      [] cls = "Event" -> EventDocs
      [] cls = "Change" -> ChangeDocs
      [] cls = "Action" -> ActionDocs
      [] cls = "Variation" -> VariationDocs
      [] cls = "Experiment" -> ExperimentDocs

-----------------------------------------------------------------------------
(* The remote service, as a LazyCollection meets it                        *)

MaxPages == 3

MaxItems == 2

MaxItemsCalls == 2

\* cap on the requests of one call of items(), for listings whose links
\* never end
MaxRequests == MaxPages + 1

Ids == {<<ToString(i)>> : i \in 1..MaxItems}

\* the keys looked up: item 1, and item 2, which short listings do not hold
LookupKeys == {<<"1">>, <<"2">>}

UpdateKeys == {<<"1">>}

Shapes == {"ok", "missing", "extra"}

LinkStyles == {"next", "prev_next", "last_next", "first_prev_next_last"}

CollClasses == {"Page"}

\* a required field other than id and name, the first in declaration order
DroppedField(c) ==
    LET fs == fields(c)
        i == CHOOSE k \in DOMAIN fs :
                /\ fs[k].required /\ fs[k].name \notin {"id", "name"}
                /\ \A j \in 1..(k - 1) : ~(fs[j].required /\ fs[j].name \notin {"id", "name"})
    IN fs[i].name

\* one item of a listing, as response.json() gives it: every declared field
\* ("ok"), one required field absent ("missing"), or one undeclared field
\* more ("extra")
RawDoc(c, id, shape) ==
    LET full == With(Blank(c), [id |-> id])
        keys == CASE shape = "missing" -> FieldNames(c) \ {DroppedField(c)}
                  [] shape = "extra" -> FieldNames(c) \cup {"unknown_field"}
                  [] OTHER -> FieldNames(c)
    IN [n \in keys |-> IF n \in FieldNames(c) THEN full[n] ELSE V]

\* the sequences of distinct ids, up to n of them
DistinctSeqs(S, n) ==
    {q \in BoundedSeq(S, n) : \A i, j \in DOMAIN q : i # j => q[i] # q[j]}

Sum(f) == LET RECURSIVE S(_)
              S(k) == IF k = 0 THEN 0 ELSE f[k] + S(k - 1)
          IN S(Len(f))

\* the listings: distinct ids in any order, at most one item that does not
\* match the schema, cut into pages
Listings(c) ==
    {[ids |-> ids, shapes |-> sh, sizes |-> sz] :
        ids \in DistinctSeqs(Ids, MaxItems),
        sh \in [1..MaxItems -> Shapes],
        sz \in UNION {[1..n -> 0..MaxItems] : n \in 1..MaxPages}}

\* the n items of a listing are the items 1..n; no page but the last is empty
WellFormedListing(l) ==
    /\ Sum(l.sizes) = Len(l.ids)
    /\ \A i \in DOMAIN l.ids : l.ids[i] \in {<<ToString(k)>> : k \in 1..Len(l.ids)}
    /\ \A p \in 1..(Len(l.sizes) - 1) : l.sizes[p] > 0
    /\ \A i \in (Len(l.ids) + 1)..MaxItems : l.shapes[i] = "ok"
    /\ Cardinality({i \in 1..Len(l.ids) : l.shapes[i] # "ok"}) <= 1

PagesOf(c, l) ==
    [p \in DOMAIN l.sizes |->
        LET before == Sum(SubSeq(l.sizes, 1, p - 1))
        IN [i \in 1..l.sizes[p] |-> RawDoc(c, l.ids[before + i], l.shapes[before + i])]]

Link(rel, url) == [rel |-> rel, url |-> url]

\* parse_header_links(response.headers['link']) of page k of n; a url is the
\* number of the page it addresses; <<>> stands for a response without the
\* header
LinkHeader(style, k, n) ==
    LET first == <<Link("first", 1)>>
        prev == IF k > 1 THEN <<Link("prev", k - 1)>> ELSE <<>>
        next == IF k < n THEN <<Link("next", k + 1)>> ELSE <<>>
        last == <<Link("last", n)>>
    IN CASE style = "next" -> next
         [] style = "prev_next" -> prev \o next
         [] style = "last_next" -> IF k < n THEN last \o next ELSE <<>>
         [] style = "first_prev_next_last" -> first \o prev \o next \o last

\* a loop that follows no link
NextUrlStop(links) == 0

\* the loop over the links in items(); 0 stands for next_url = None
NextUrl(links) ==
    LET followed == SelectSeq(links, LAMBDA link : link.rel \in {"next", "last"})
    IN IF followed = <<>> THEN 0 ELSE Head(followed).url

AllDocs(pages) == Flatten(pages)

HasDoc(pages, key) == \E i \in DOMAIN AllDocs(pages) : AllDocs(pages)[i].id = key

DocOf(pages, key) ==
    AllDocs(pages)[CHOOSE i \in DOMAIN AllDocs(pages) : AllDocs(pages)[i].id = key]

\* the service applies an accepted partial update to the item
Patched(pages, key, changes) ==
    [p \in DOMAIN pages |->
        [i \in DOMAIN pages[p] |->
            LET d == pages[p][i]
            IN IF d.id # key THEN d
               ELSE [n \in DOMAIN d \cup DOMAIN changes |->
                        IF n \in DOMAIN changes THEN changes[n] ELSE d[n]]]]

Reason == <<"B", "a", "d">>

Message == <<"n", "o">>

\* a response: its status, the page it carries (0 when it is not a page of
\* the listing), and the message of its json body (None when the body has
\* no message)
Response(ok, page, message) == [ok |-> ok, page |-> page, message |-> message, reason |-> Reason]

NoResponse == Response(TRUE, 0, None)

-----------------------------------------------------------------------------
(* LazyCollection                                                          *)

\* a dict in insertion order; is_none stands for _items = None
NoneItems == [is_none |-> TRUE, entries |-> <<>>]

EmptyItems == [is_none |-> FALSE, entries |-> <<>>]

HasKey(d, key) == \E i \in DOMAIN d.entries : d.entries[i].k = key

GetKey(d, key) == d.entries[CHOOSE i \in DOMAIN d.entries : d.entries[i].k = key].v

\* d[key] = value
SetKey(entries, key, value) ==
    IF \E i \in DOMAIN entries : entries[i].k = key
    THEN [i \in DOMAIN entries |->
            IF entries[i].k = key THEN [k |-> key, v |-> value] ELSE entries[i]]
    ELSE Append(entries, [k |-> key, v |-> value])

\* a loop that ends at the first item the class does not accept
RECURSIVE StoreDocsUntilMismatch(_, _, _)
StoreDocsUntilMismatch(entries, c, docs) ==
    IF docs = <<>> THEN entries
    ELSE LET obj == Construct(c, Head(docs))
         IN IF obj.ok
            THEN StoreDocsUntilMismatch(SetKey(entries, obj.val.id, obj.val), c, Tail(docs))
            ELSE entries

\* the for loop over response.json() in items(): each item that the class
\* accepts is stored under its id, the others are logged
RECURSIVE StoreDocs(_, _, _)
StoreDocs(entries, c, docs) ==
    IF docs = <<>> THEN entries
    ELSE LET obj == Construct(c, Head(docs))
         IN StoreDocs(IF obj.ok THEN SetKey(entries, obj.val.id, obj.val) ELSE entries,
                      c, Tail(docs))

LoggedDocs(c, docs) ==
    LET failed == SelectSeq(docs, LAMBDA d : ~Construct(c, d).ok)
    IN [i \in DOMAIN failed |-> failed[i].id]

\* a status check that reports the reason whatever the body says
raise_for_status_reason(resp) ==
    IF ~resp.ok
    THEN [ok |-> FALSE, err |-> "HTTPError", msg |-> resp.reason]
    ELSE [ok |-> TRUE, err |-> "none", msg |-> None]

\* Optimizely.raise_for_status
raise_for_status(resp) ==
    IF ~resp.ok
    THEN [ok |-> FALSE, err |-> "HTTPError",
          msg |-> IF resp.message # None THEN resp.message ELSE resp.reason]
    ELSE [ok |-> TRUE, err |-> "none", msg |-> None]

GetList(page) == [m |-> "GET", item |-> None, page |-> page, json |-> None]

GetOne(key) == [m |-> "GET", item |-> key, page |-> 0, json |-> None]

PatchOne(key, changes) == [m |-> "PATCH", item |-> key, page |-> 0, json |-> changes]

Returned(op, key, val) ==
    [op |-> op, key |-> key, ok |-> TRUE, err |-> "none", msg |-> None, val |-> val]

Raised(op, key, err, msg) ==
    [op |-> op, key |-> key, ok |-> FALSE, err |-> err, msg |-> msg, val |-> None]

\* no call has finished, or one is in progress
NoCall == Returned("none", None, None)

\* items() when _items is set: no request
ItemsCached ==
    /\ coll_pc = "idle"
    /\ Len(items_log) < MaxItemsCalls
    /\ ~_items.is_none
    /\ requests' = <<>>
    /\ logged' = <<>>
    /\ response' = NoResponse
    /\ ret' = Returned("items", None, _items.entries)
    /\ items_log' = Append(items_log,
            [ok |-> TRUE, val |-> _items.entries, gets |-> <<>>,
             served |-> <<>>, logged |-> <<>>])
    /\ UNCHANGED <<coll_cls, remote_pages, link_style, _items, coll_pc>>
    /\ UNCHANGED docVars
    /\ UNCHANGED pushVars

\* items() when _items is None, up to the first response
ItemsBegin(ok) ==
    /\ coll_pc = "idle"
    /\ Len(items_log) < MaxItemsCalls
    /\ _items.is_none
    /\ _items' = EmptyItems
    /\ requests' = <<GetList(1)>>
    /\ logged' = <<>>
    /\ response' = Response(ok, 1, None)
    /\ coll_pc' = "fetching"
    /\ ret' = NoCall
    /\ UNCHANGED <<coll_cls, remote_pages, link_style, items_log>>
    /\ UNCHANGED docVars
    /\ UNCHANGED pushVars

\* one turn of the while loop of items()
ItemsPage(ok) ==
    /\ coll_pc = "fetching"
    /\ IF ~response.ok
       THEN \* response.raise_for_status() raises
            /\ coll_pc' = "idle"
            /\ ret' = Raised("items", None, "HTTPError", None)
            /\ items_log' = Append(items_log,
                    [ok |-> FALSE, val |-> _items.entries,
                     gets |-> [i \in DOMAIN requests |-> requests[i].page],
                     served |-> remote_pages, logged |-> logged])
            /\ UNCHANGED <<_items, requests, logged, response>>
       ELSE \E docs \in {remote_pages[response.page]} :
            \E entries \in {StoreDocs(_items.entries, coll_cls, docs)} :
            \E next_url \in {NextUrl(LinkHeader(link_style, response.page,
                                                Len(remote_pages)))} :
               /\ _items' = [is_none |-> FALSE, entries |-> entries]
               /\ logged' = logged \o LoggedDocs(coll_cls, docs)
               /\ IF next_url # 0
                  THEN /\ Len(requests) < MaxRequests
                       /\ requests' = Append(requests, GetList(next_url))
                       /\ response' = Response(ok, next_url, None)
                       /\ UNCHANGED <<coll_pc, ret, items_log>>
                  ELSE /\ coll_pc' = "idle"
                       /\ ret' = Returned("items", None, entries)
                       /\ items_log' = Append(items_log,
                               [ok |-> TRUE, val |-> entries,
                                gets |-> [i \in DOMAIN requests |-> requests[i].page],
                                served |-> remote_pages,
                                logged |-> logged \o LoggedDocs(coll_cls, docs)])
                       /\ UNCHANGED <<requests, response>>
    /\ UNCHANGED <<coll_cls, remote_pages, link_style>>
    /\ UNCHANGED docVars
    /\ UNCHANGED pushVars

\* collection[key]: the request it sends, the response and what it returns
\* or raises
getitem(items, pages, c, key) ==
    IF ~items.is_none /\ HasKey(items, key)
    THEN [requests |-> <<>>, response |-> NoResponse,
          ret |-> Returned("getitem", key, GetKey(items, key))]
    ELSE LET resp == IF HasDoc(pages, key) THEN Response(TRUE, 0, None)
                     ELSE Response(FALSE, 0, Message)
             status == raise_for_status(resp)
             obj == Construct(c, DocOf(pages, key))
         IN [requests |-> <<GetOne(key)>>, response |-> resp,
             ret |-> IF ~status.ok THEN Raised("getitem", key, status.err, status.msg)
                     ELSE IF ~obj.ok THEN Raised("getitem", key, obj.err, None)
                     ELSE Returned("getitem", key, obj.val)]

\* collection[key] = value, answered by resp
setitem(c, key, value, resp) ==
    LET changes == asdict(c, value, "modifiable")
        status == raise_for_status(resp)
    IN [requests |-> <<PatchOne(key, changes)>>, response |-> resp,
        ret |-> IF ~status.ok THEN Raised("setitem", key, status.err, status.msg)
                ELSE Returned("setitem", key, None)]

\* a lookup that stores what it fetched
GetItemCaching(key) ==
    /\ coll_pc = "idle"
    /\ \E call \in {getitem(_items, remote_pages, coll_cls, key)} :
          /\ requests' = call.requests
          /\ response' = call.response
          /\ ret' = call.ret
          /\ _items' = IF call.ret.ok /\ Len(call.requests) = 1
                       THEN [is_none |-> FALSE,
                             entries |-> SetKey(_items.entries, key, call.ret.val)]
                       ELSE _items
    /\ logged' = <<>>
    /\ UNCHANGED <<coll_cls, remote_pages, link_style, coll_pc, items_log>>
    /\ UNCHANGED docVars
    /\ UNCHANGED pushVars

\* collection[key], as a step of the collection
GetItem(key) ==
    /\ coll_pc = "idle"
    /\ \E call \in {getitem(_items, remote_pages, coll_cls, key)} :
          /\ requests' = call.requests
          /\ response' = call.response
          /\ ret' = call.ret
    /\ logged' = <<>>
    /\ UNCHANGED <<coll_cls, remote_pages, link_style, _items, coll_pc, items_log>>
    /\ UNCHANGED docVars
    /\ UNCHANGED pushVars

\* an update that stores the resource it sent in the cache
SetItemCaching(key, value, resp) ==
    /\ coll_pc = "idle"
    /\ resp.ok => HasDoc(remote_pages, key)
    /\ \E call \in {setitem(coll_cls, key, value, resp)} :
          /\ requests' = call.requests
          /\ response' = call.response
          /\ ret' = call.ret
          /\ remote_pages' = IF resp.ok
                             THEN Patched(remote_pages, key, call.requests[1].json)
                             ELSE remote_pages
    /\ _items' = IF resp.ok /\ ~_items.is_none
                 THEN [is_none |-> FALSE, entries |-> SetKey(_items.entries, key, value)]
                 ELSE _items
    /\ logged' = <<>>
    /\ UNCHANGED <<coll_cls, link_style, coll_pc, items_log>>
    /\ UNCHANGED docVars
    /\ UNCHANGED pushVars

\* collection[key] = value, as a step of the collection; the service
\* applies an accepted update
SetItem(key, value, resp) ==
    /\ coll_pc = "idle"
    /\ resp.ok => HasDoc(remote_pages, key)
    /\ \E call \in {setitem(coll_cls, key, value, resp)} :
          /\ requests' = call.requests
          /\ response' = call.response
          /\ ret' = call.ret
          /\ remote_pages' = IF resp.ok
                             THEN Patched(remote_pages, key, call.requests[1].json)
                             ELSE remote_pages
    /\ logged' = <<>>
    /\ UNCHANGED <<coll_cls, link_style, _items, coll_pc, items_log>>
    /\ UNCHANGED docVars
    /\ UNCHANGED pushVars

Updates(c, key) ==
    {With(Blank(c), [id |-> key, name |-> <<"z">>])}

Answers == {Response(TRUE, 0, None), Response(FALSE, 0, Message), Response(FALSE, 0, None)}

PushUnused ==
    /\ push_pc = "unused"
    /\ local = None
    /\ remote = None
    /\ local_doc = None
    /\ remote_doc = None
    /\ echoed = <<>>
    /\ confirmed = "unasked"

CollUnused ==
    /\ coll_cls = "Page"
    /\ remote_pages = << <<>> >>
    /\ link_style = "next"
    /\ _items = NoneItems
    /\ coll_pc = "idle"
    /\ response = NoResponse
    /\ requests = <<>>
    /\ logged = <<>>
    /\ ret = NoCall
    /\ items_log = <<>>

DocUnused ==
    /\ doc_cls = "Event"
    /\ doc = Blank("Event")
    /\ dirs = {<<>>}
    /\ files = <<>>
    /\ doc_pc = "unused"
    /\ read_result = [ok |-> FALSE, val |-> None, err |-> "pending"]
    /\ projection = [done |-> TRUE, val |-> None]
    /\ write_todo = <<>>

InitColl ==
    /\ coll_cls \in CollClasses
    /\ \E l \in Listings(coll_cls) :
          /\ WellFormedListing(l)
          /\ remote_pages = PagesOf(coll_cls, l)
    /\ link_style \in LinkStyles
    /\ _items = NoneItems
    /\ coll_pc = "idle"
    /\ response = NoResponse
    /\ requests = <<>>
    /\ logged = <<>>
    /\ ret = NoCall
    /\ items_log = <<>>
    /\ DocUnused
    /\ PushUnused

NextColl ==
    \/ ItemsCached
    \/ \E ok \in BOOLEAN : ItemsBegin(ok)
    \/ \E ok \in BOOLEAN : ItemsPage(ok)
    \/ \E key \in LookupKeys : GetItem(key)
    \/ \E key \in UpdateKeys : \E value \in Updates(coll_cls, key) : \E resp \in Answers :
          SetItem(key, value, resp)

SpecColl == InitColl /\ [][NextColl]_vars

-----------------------------------------------------------------------------
(* Documents on disk: one document is written into an empty parent         *)
(* directory and read back; its modifiable projection is taken             *)

Parent == << <<"r", "o", "o", "t">> >>

Disk == [dirs |-> dirs, files |-> files]

Pending == [ok |-> FALSE, val |-> None, err |-> "pending"]

NotTaken == [done |-> FALSE, val |-> None]

InitDoc ==
    /\ doc_cls \in Classes
    /\ doc \in Docs(doc_cls)
    /\ dirs = Prefixes(Parent)
    /\ files = <<>>
    /\ doc_pc = "new"
    /\ read_result = Pending
    /\ projection = NotTaken
    /\ write_todo = <<>>
    /\ CollUnused
    /\ PushUnused

\* doc.write_to_disk(Parent)
WriteToDisk ==
    /\ doc_pc = "new"
    /\ LET after == ApplyOps(Disk, write_to_disk(doc_cls, doc, Parent))
       IN /\ dirs' = after.dirs
          /\ files' = after.files
    /\ doc_pc' = "written"
    /\ UNCHANGED <<doc_cls, doc, read_result, projection, write_todo>>
    /\ UNCHANGED collVars
    /\ UNCHANGED pushVars

\* cls.read_from_disk of the directory the last write produced
ReadFromDisk ==
    /\ doc_pc \in {"written", "rewritten", "edited"}
    /\ read_result' = read_from_disk(Disk, doc_cls, Docroot(doc_cls, doc, Parent))
    /\ doc_pc' = CASE doc_pc = "written" -> "read"
                   [] doc_pc = "rewritten" -> "reread"
                   [] doc_pc = "edited" -> "read_edited"
    /\ UNCHANGED <<doc_cls, doc, dirs, files, projection, write_todo>>
    /\ UNCHANGED collVars
    /\ UNCHANGED pushVars

\* attr.asdict(doc, filter=modifiable)
AsdictModifiable ==
    /\ ~projection.done
    /\ projection' = [done |-> TRUE, val |-> asdict(doc_cls, doc, "modifiable")]
    /\ UNCHANGED <<doc_cls, doc, dirs, files, doc_pc, read_result, write_todo>>
    /\ UNCHANGED collVars
    /\ UNCHANGED pushVars

NextDoc == WriteToDisk \/ ReadFromDisk \/ AsdictModifiable

SpecDoc == InitDoc /\ [][NextDoc]_vars

-----------------------------------------------------------------------------
(* Documents on disk: a second document is written over the first, and the *)
(* user removes child directories, before the directory is read            *)

RewriteClasses == {"Change", "Action"}

\* the changes of the actions written: two ids whose directory names
\* differ, with and without a value
RewriteChanges ==
    {c \in NestedChanges : c.id \in {<<"c", "1">>, <<"c", " ", "1">>}}

\* the documents written, first and second
RewriteDocs(cls) ==
    CASE cls = "Change" -> {c \in ChangeDocs : c.type = <<"custom_css">>}
      [] cls = "Action" ->
            {With(Blank("Action"), [changes |-> cs]) :
                cs \in BoundedSeq(RewriteChanges, MaxChildren)}

IsPrefix(d, p) == Len(d) <= Len(p) /\ SubSeq(p, 1, Len(d)) = d

\* the directories of the children of the collections of the document
ChildDirs ==
    {d \in dirs :
        /\ Len(d) = Len(Docroot(doc_cls, doc, Parent)) + 2
        /\ IsPrefix(Docroot(doc_cls, doc, Parent), d)}

InitRewrite ==
    /\ doc_cls \in RewriteClasses
    /\ doc \in RewriteDocs(doc_cls)
    /\ dirs = Prefixes(Parent)
    /\ files = <<>>
    /\ doc_pc = "new"
    /\ read_result = Pending
    /\ projection = NotTaken
    /\ write_todo = <<>>
    /\ CollUnused
    /\ PushUnused

\* r2.write_to_disk(Parent) over the directory of the first document
Rewrite(r2) ==
    /\ doc_pc = "written"
    /\ dirname(doc_cls, r2) = dirname(doc_cls, doc)
    /\ \E after \in {ApplyOps(Disk, write_to_disk(doc_cls, r2, Parent))} :
          /\ dirs' = after.dirs
          /\ files' = after.files
    /\ doc' = r2
    /\ doc_pc' = "rewritten"
    /\ UNCHANGED <<doc_cls, read_result, projection, write_todo>>
    /\ UNCHANGED collVars
    /\ UNCHANGED pushVars

\* the user removes the directory d of a child, with all it holds
DeleteChild(d) ==
    /\ doc_pc \in {"written", "rewritten", "edited"}
    /\ d \in ChildDirs
    /\ dirs' = {p \in dirs : ~IsPrefix(d, p)}
    /\ files' = [p \in {q \in DOMAIN files : ~IsPrefix(d, q)} |-> files[p]]
    /\ doc_pc' = "edited"
    /\ UNCHANGED <<doc_cls, doc, read_result, projection, write_todo>>
    /\ UNCHANGED collVars
    /\ UNCHANGED pushVars

NextRewrite ==
    \/ WriteToDisk
    \/ \E r2 \in RewriteDocs(doc_cls) : Rewrite(r2)
    \/ \E d \in dirs : DeleteChild(d)
    \/ ReadFromDisk

SpecRewrite == InitRewrite /\ [][NextRewrite]_vars

-----------------------------------------------------------------------------
(* Documents on disk: write_to_disk seen one file-system call at a time    *)

InitWrite ==
    /\ doc_cls \in Classes
    /\ doc \in Docs(doc_cls)
    /\ dirs = Prefixes(Parent)
    /\ files = <<>>
    /\ doc_pc = "new"
    /\ read_result = Pending
    /\ projection = NotTaken
    /\ write_todo = <<>>
    /\ CollUnused
    /\ PushUnused

\* doc.write_to_disk(Parent) is entered: the calls it will make, in order
WriteBegin ==
    /\ doc_pc = "new"
    /\ write_todo' = write_to_disk(doc_cls, doc, Parent)
    /\ doc_pc' = "writing"
    /\ UNCHANGED <<doc_cls, doc, dirs, files, read_result, projection>>
    /\ UNCHANGED collVars
    /\ UNCHANGED pushVars

\* the next mkdir or file write of the write_to_disk in progress
WriteStep ==
    /\ doc_pc = "writing"
    /\ write_todo # <<>>
    /\ LET after == ApplyOp(Disk, Head(write_todo))
       IN /\ dirs' = after.dirs
          /\ files' = after.files
    /\ write_todo' = Tail(write_todo)
    /\ doc_pc' = IF Tail(write_todo) = <<>> THEN "written" ELSE "writing"
    /\ UNCHANGED <<doc_cls, doc, read_result, projection>>
    /\ UNCHANGED collVars
    /\ UNCHANGED pushVars

NextWrite == WriteBegin \/ WriteStep \/ ReadFromDisk

SpecWrite == InitWrite /\ [][NextWrite]_vars

-----------------------------------------------------------------------------
(* push_object: a document lies on disk, the service holds its remote      *)
(* counterpart under the same id                                           *)

PushClasses == {"Page", "Experiment", "Project"}

Body == <<"b", "o", "d", "y">>

PushDocs(c) ==
    CASE c = "Page" ->
            {With(Blank("Page"),
                  [name |-> n, last_modified |-> m, conditions |-> k, activation_code |-> Body]) :
                n \in Names, m \in {V, <<"w">>}, k \in {None, <<"1">>}}
      [] c = "Experiment" ->
            {With(Blank("Experiment"),
                  [name |-> <<"a">>, variations |-> vs, status |-> st,
                   audience_conditions |-> <<"1">>]) :
                vs \in BoundedSeq({v \in NestedVariations : v.name = None}, 1),
                st \in {V, <<"w">>}}
      [] c = "Project" ->
            {With(Blank("Project"),
                  [name |-> n, socket_token |-> t,
                   web_snippet |-> With(Blank("WebSnippet"), [project_javascript |-> Body])]) :
                n \in Names, t \in {None, V}}

\* the json the service sends for a document
JsonOf(c, obj) == asdict(c, obj, "all")

EmptyDisk == [dirs |-> Prefixes(Parent), files |-> <<>>]

InitPush ==
    /\ doc_cls \in PushClasses
    /\ doc \in PushDocs(doc_cls)
    /\ LET disk == ApplyOps(EmptyDisk, write_to_disk(doc_cls, doc, Parent))
       IN dirs = disk.dirs /\ files = disk.files
    /\ doc_pc = "written"
    /\ read_result = Pending
    /\ projection = NotTaken
    /\ write_todo = <<>>
    /\ coll_cls = doc_cls
    /\ \/ remote_pages = << <<>> >>
       \/ \E r \in PushDocs(doc_cls) : remote_pages = << <<JsonOf(doc_cls, r)>> >>
    /\ link_style = "next"
    /\ _items = NoneItems
    /\ coll_pc = "idle"
    /\ response = NoResponse
    /\ requests = <<>>
    /\ logged = <<>>
    /\ ret = NoCall
    /\ items_log = <<>>
    /\ push_pc = "Start"
    /\ local = None
    /\ remote = None
    /\ local_doc = None
    /\ remote_doc = None
    /\ echoed = <<>>
    /\ confirmed = "unasked"

\* local = object_class.read_from_disk(Path(path));
\* remote = getattr(optimizely, collection_name)()[local.id]
PushLoad ==
    /\ push_pc = "Start"
    /\ \E read \in {read_from_disk(Disk, doc_cls, Docroot(doc_cls, doc, Parent))} :
          IF ~read.ok
          THEN /\ push_pc' = "Failed"
               /\ ret' = Raised("push", None, read.err, None)
               /\ UNCHANGED <<local, remote, requests, response>>
          ELSE \E call \in {getitem(NoneItems, remote_pages, coll_cls, read.val.id)} :
               /\ requests' = call.requests
               /\ response' = call.response
               /\ IF ~call.ret.ok
                  THEN /\ push_pc' = "Failed"
                       /\ ret' = call.ret
                       /\ UNCHANGED <<local, remote>>
                  ELSE /\ push_pc' = "Loaded"
                       /\ local' = read.val
                       /\ remote' = call.ret.val
                       /\ UNCHANGED ret
    /\ UNCHANGED <<local_doc, remote_doc, echoed, confirmed>>
    /\ UNCHANGED <<coll_cls, remote_pages, link_style, _items, coll_pc, logged, items_log>>
    /\ UNCHANGED docVars

\* the two calls of attr.asdict(..., filter=modifiable)
PushProject ==
    /\ push_pc = "Loaded"
    /\ remote_doc' = asdict(coll_cls, remote, "modifiable")
    /\ local_doc' = asdict(coll_cls, local, "modifiable")
    /\ push_pc' = "Compared"
    /\ UNCHANGED <<local, remote, echoed, confirmed>>
    /\ UNCHANGED collVars
    /\ UNCHANGED docVars

\* a comparison that asks whatever the projections are
PushCompareAlwaysAsk ==
    /\ push_pc = "Compared"
    /\ echoed' = Append(echoed, [text |-> "diff", fromfile |-> remote_doc,
                                 tofile |-> local_doc])
    /\ push_pc' = "AwaitingConfirmation"
    /\ confirmed' = "pending"
    /\ UNCHANGED <<local, remote, local_doc, remote_doc>>
    /\ UNCHANGED collVars
    /\ UNCHANGED docVars

\* if local_doc == remote_doc: ... else: the diff, then click.confirm
PushCompare ==
    /\ push_pc = "Compared"
    /\ IF local_doc = remote_doc
       THEN /\ echoed' = Append(echoed, [text |-> "No changes!"])
            /\ push_pc' = "NoOp"
            /\ UNCHANGED confirmed
       ELSE /\ echoed' = Append(echoed, [text |-> "diff", fromfile |-> remote_doc,
                                         tofile |-> local_doc])
            /\ push_pc' = "AwaitingConfirmation"
            /\ confirmed' = "pending"
    /\ UNCHANGED <<local, remote, local_doc, remote_doc>>
    /\ UNCHANGED collVars
    /\ UNCHANGED docVars

\* an update sent whatever the answer to click.confirm
PushConfirmUnasked(yes, resp) ==
    /\ push_pc = "AwaitingConfirmation"
    /\ \E call \in {setitem(coll_cls, local.id, local, resp)} :
          /\ confirmed' = IF yes THEN "yes" ELSE "no"
          /\ requests' = requests \o call.requests
          /\ response' = call.response
          /\ remote_pages' = IF resp.ok
                             THEN Patched(remote_pages, local.id, call.requests[1].json)
                             ELSE remote_pages
          /\ ret' = call.ret
          /\ push_pc' = IF ~yes THEN "Cancelled"
                        ELSE IF call.ret.ok THEN "Applied" ELSE "Rejected"
    /\ UNCHANGED <<local, remote, local_doc, remote_doc, echoed>>
    /\ UNCHANGED <<coll_cls, link_style, _items, coll_pc, logged, items_log>>
    /\ UNCHANGED docVars

\* a confirmation that aborts the command when it is declined
PushConfirmAbort(yes, resp) ==
    /\ push_pc = "AwaitingConfirmation"
    /\ IF yes
       THEN \E call \in {setitem(coll_cls, local.id, local, resp)} :
               /\ confirmed' = "yes"
               /\ requests' = requests \o call.requests
               /\ response' = call.response
               /\ remote_pages' = IF resp.ok
                                  THEN Patched(remote_pages, local.id, call.requests[1].json)
                                  ELSE remote_pages
               /\ ret' = call.ret
               /\ push_pc' = IF call.ret.ok THEN "Applied" ELSE "Rejected"
       ELSE /\ confirmed' = "no"
            /\ push_pc' = "Cancelled"
            /\ ret' = Raised("push", None, "Abort", None)
            /\ UNCHANGED <<requests, response, remote_pages>>
    /\ UNCHANGED <<local, remote, local_doc, remote_doc, echoed>>
    /\ UNCHANGED <<coll_cls, link_style, _items, coll_pc, logged, items_log>>
    /\ UNCHANGED docVars

\* the answer to click.confirm, and on yes collection[local.id] = local,
\* answered by resp
PushConfirm(yes, resp) ==
    /\ push_pc = "AwaitingConfirmation"
    /\ IF yes
       THEN \E call \in {setitem(coll_cls, local.id, local, resp)} :
               /\ confirmed' = "yes"
               /\ requests' = requests \o call.requests
               /\ response' = call.response
               /\ remote_pages' = IF resp.ok
                                  THEN Patched(remote_pages, local.id, call.requests[1].json)
                                  ELSE remote_pages
               /\ ret' = call.ret
               /\ push_pc' = IF call.ret.ok THEN "Applied" ELSE "Rejected"
       ELSE /\ confirmed' = "no"
            /\ push_pc' = "Cancelled"
            /\ UNCHANGED <<requests, response, remote_pages, ret>>
    /\ UNCHANGED <<local, remote, local_doc, remote_doc, echoed>>
    /\ UNCHANGED <<coll_cls, link_style, _items, coll_pc, logged, items_log>>
    /\ UNCHANGED docVars

NextPush ==
    \/ PushLoad
    \/ PushProject
    \/ PushCompare
    \/ \E yes \in BOOLEAN : \E resp \in Answers : PushConfirm(yes, resp)

SpecPush == InitPush /\ [][NextPush]_vars

-----------------------------------------------------------------------------
(* Properties of the disk mapping and of the projection                    *)

\* no two children of one collection share a directory name, at any depth
RECURSIVE DistinctSiblings(_, _)
DistinctSiblings(cls, obj) ==
    \A n \in FieldNames(cls) :
        LET f == Field(cls, n)
        IN IF f.kind = "collection"
           THEN /\ \A i, j \in DOMAIN obj[n] :
                      i # j => dirname(f.of, obj[n][i]) # dirname(f.of, obj[n][j])
                /\ \A i \in DOMAIN obj[n] : DistinctSiblings(f.of, obj[n][i])
           ELSE IF f.kind = "subdocument" THEN DistinctSiblings(f.of, obj[n])
           ELSE TRUE

\* b equals a on every field that is not None in a, children included
RECURSIVE EqualWherePresent(_, _, _)
EqualWherePresent(cls, a, b) ==
    \A n \in FieldNames(cls) :
        LET f == Field(cls, n)
        IN IF f.kind = "collection"
           THEN /\ Len(b[n]) = Len(a[n])
                /\ \A i \in DOMAIN a[n] : EqualWherePresent(f.of, a[n][i], b[n][i])
           ELSE IF f.kind = "subdocument" THEN EqualWherePresent(f.of, a[n], b[n])
           ELSE a[n] # None => b[n] = a[n]

\* C1: a document whose sibling children have distinct directory names,
\* written into an empty parent and read back, is read without error and
\* equals the original on every field that was not None.
C1_RoundTrip ==
    (doc_pc = "read" /\ DistinctSiblings(doc_cls, doc))
        => (read_result.ok /\ EqualWherePresent(doc_cls, doc, read_result.val))

\* d holds exactly the fields of obj that are neither read-only nor None,
\* each with its value, the same in every child
RECURSIVE ModifiableProjectionOf(_, _, _)
ModifiableProjectionOf(cls, obj, d) ==
    /\ DOMAIN d = {n \in FieldNames(cls) :
                      /\ ~Field(cls, n).read_only
                      /\ Field(cls, n).kind \in {"plain", "serializer"} => obj[n] # None}
    /\ \A n \in DOMAIN d :
          LET f == Field(cls, n)
          IN IF f.kind = "collection"
             THEN /\ Len(d[n]) = Len(obj[n])
                  /\ \A i \in DOMAIN obj[n] : ModifiableProjectionOf(f.of, obj[n][i], d[n][i])
             ELSE IF f.kind = "subdocument" THEN ModifiableProjectionOf(f.of, obj[n], d[n])
             ELSE d[n] = obj[n]

\* C6: the projection attr.asdict(resource, filter=modifiable) holds no
\* read-only field and no field that is None, at the top level and in every
\* nested child, and holds every other field with its value unchanged.
C6_ModifiableProjection ==
    projection.done => ModifiableProjectionOf(doc_cls, doc, projection.val)

\* the projection of an experiment with two variations and a field that is None
C6_Witness ==
    /\ projection.done
    /\ doc_cls = "Experiment"
    /\ Len(doc.variations) = 2
    /\ doc.audience_conditions = None
    /\ "audience_conditions" \notin DOMAIN projection.val
    /\ "created" \notin DOMAIN projection.val
    /\ "name" \in DOMAIN projection.val

-----------------------------------------------------------------------------
(* Properties of LazyCollection                                            *)

\* the link headers of the listing carry next (and prev) links only
NoLastRel == link_style \in {"next", "prev_next"}

\* the item carries no key the class does not declare and every field the
\* class requires
MatchesSchema(c, d) ==
    /\ DOMAIN d \subseteq FieldNames(c)
    /\ \A n \in FieldNames(c) : Field(c, n).required => n \in DOMAIN d

\* the resource of an item that matches the schema of a class without
\* children
ResourceOf(c, d) == [n \in FieldNames(c) |-> IF n \in DOMAIN d THEN d[n] ELSE None]

\* the entries of the items of docs that match the schema, in the order of docs
ExpectedEntries(c, docs) ==
    LET good == SelectSeq(docs, LAMBDA d : MatchesSchema(c, d))
    IN [i \in DOMAIN good |-> [k |-> good[i].id, v |-> ResourceOf(c, good[i])]]

\* the ids of the items of docs that do not match the schema, in the order of docs
ExpectedLogged(c, docs) ==
    LET bad == SelectSeq(docs, LAMBDA d : ~MatchesSchema(c, d))
    IN [i \in DOMAIN bad |-> bad[i].id]

\* the items of the pages a call of items() requested, in the order requested
FetchedDocs(e) == Flatten([j \in DOMAIN e.gets |-> e.served[e.gets[j]]])

\* C2: against N pages whose headers link each page but the last to the next
\* one (no rel=last, every response OK), the first items() sends exactly the
\* N GETs for pages 1..N and yields the deserializable items of all pages in
\* the order served; every later items() sends nothing and yields the same.
C2_Pagination ==
    /\ (NoLastRel /\ Len(items_log) >= 1 /\ items_log[1].ok) =>
            /\ items_log[1].gets = [i \in 1..Len(remote_pages) |-> i]
            /\ items_log[1].val =
                   ExpectedEntries(coll_cls, Flatten(items_log[1].served))
    /\ \A i \in 2..Len(items_log) :
            /\ items_log[i].ok
            /\ items_log[i].gets = <<>>
            /\ items_log[i].val = items_log[1].val

\* three pages, the two items served in the order 2, 1 on different pages,
\* and a second call answered from the cache
C2_Witness ==
    /\ NoLastRel
    /\ Len(remote_pages) = 3
    /\ Len(items_log) = 2
    /\ items_log[1].ok
    /\ items_log[1].gets = <<1, 2, 3>>
    /\ Len(items_log[1].val) = 2
    /\ items_log[1].val[1].k = <<"2">>
    /\ Len(remote_pages[1]) = 1
    /\ items_log[2].gets = <<>>

\* C7: collection[id] sends nothing and returns the cached entry when the
\* cache holds id; otherwise it sends exactly one GET for that item and
\* returns the result; it never changes the cache, so a collection that was
\* never iterated keeps no cache and its first items() fetches.
C7_PointLookup ==
    /\ []((coll_pc = "idle" /\ items_log = <<>>) => _items.is_none)
    /\ [](Len(items_log) >= 1 => Len(items_log[1].gets) >= 1 /\ items_log[1].gets[1] = 1)
    /\ [][ret'.op = "getitem" =>
            /\ _items' = _items
            /\ IF ~_items.is_none /\ HasKey(_items, ret'.key)
               THEN /\ requests' = <<>>
                    /\ ret'.ok
                    /\ ret'.val = GetKey(_items, ret'.key)
               ELSE /\ requests' = <<GetOne(ret'.key)>>
                    /\ (ret'.ok /\ HasDoc(remote_pages, ret'.key)) =>
                          ret'.val = ResourceOf(coll_cls, DocOf(remote_pages, ret'.key))]_vars

\* a lookup on a collection that was never iterated: one GET, a result, no cache
C7_Witness ==
    /\ ret.op = "getitem"
    /\ ret.ok
    /\ requests = <<GetOne(ret.key)>>
    /\ items_log = <<>>
    /\ _items.is_none

\* C8: an item of a listing that does not match the schema is logged and
\* skipped, it alone: a call of items() whose responses are all OK returns,
\* and what it returns and caches are the other items of every page it
\* requested, in order.
C8_MismatchRecovered ==
    /\ [](\A i \in DOMAIN items_log :
            (items_log[i].ok /\ items_log[i].gets # <<>>) =>
                /\ items_log[i].val = ExpectedEntries(coll_cls, FetchedDocs(items_log[i]))
                /\ items_log[i].logged = ExpectedLogged(coll_cls, FetchedDocs(items_log[i])))
    /\ []((coll_pc = "idle" /\ Len(items_log) >= 1) => _items.entries = items_log[1].val)
    /\ [][(Len(items_log') > Len(items_log) /\ ~items_log'[Len(items_log')].ok)
            => ~response.ok]_vars

\* a mismatched item first on page 1, a good item after it on the same page
C8_Witness ==
    /\ Len(items_log) >= 1
    /\ items_log[1].ok
    /\ Len(remote_pages[1]) = 2
    /\ ~MatchesSchema(coll_cls, remote_pages[1][1])
    /\ items_log[1].logged = <<remote_pages[1][1].id>>
    /\ Len(items_log[1].val) = 1
    /\ items_log[1].val[1].k = remote_pages[1][2].id

\* C9: a remote item with every declared field and one undeclared field
\* more is deserialized, by items() and by collection[id]: it is among the
\* entries of a complete listing, and its lookup returns.
C9_UnknownFieldsIgnored ==
    /\ \A i \in DOMAIN items_log :
          (items_log[i].ok /\ items_log[i].gets = [j \in 1..Len(remote_pages) |-> j]) =>
              \A p \in DOMAIN items_log[i].served :
                  \A q \in DOMAIN items_log[i].served[p] :
                      FieldNames(coll_cls) \subseteq DOMAIN items_log[i].served[p][q] =>
                          \E j \in DOMAIN items_log[i].val :
                              items_log[i].val[j].k = items_log[i].served[p][q].id
    /\ (/\ ret.op = "getitem"
        /\ HasDoc(remote_pages, ret.key)
        /\ FieldNames(coll_cls) \subseteq DOMAIN DocOf(remote_pages, ret.key)) => ret.ok

\* C10: collection[id] = resource sends one PATCH for id whose payload is
\* the modifiable projection of the resource; when the answer (a json
\* object) is not OK it raises HTTPError with the message of the answer, or
\* the reason when the answer has no message, and sends nothing more.
C10_UpdateRejected ==
    ret.op = "setitem" =>
        /\ Len(requests) = 1
        /\ requests[1].m = "PATCH"
        /\ requests[1].item = ret.key
        /\ \E v \in Updates(coll_cls, ret.key) :
              ModifiableProjectionOf(coll_cls, v, requests[1].json)
        /\ response.ok => ret.ok
        /\ ~response.ok =>
              /\ ~ret.ok
              /\ ret.err = "HTTPError"
              /\ ret.msg = IF response.message # None THEN response.message
                           ELSE response.reason

\* an update refused with a message
C10_Witness ==
    /\ ret.op = "setitem"
    /\ ~ret.ok
    /\ ~response.ok
    /\ ret.msg = Message
    /\ Len(requests) = 1

-----------------------------------------------------------------------------
(* Properties of push_object                                               *)

PatchRequests == SelectSeq(requests, LAMBDA r : r.m = "PATCH")

\* push_object has read local and fetched remote
PushLoaded == push_pc \notin {"Start", "Failed"}

\* the projections have been taken
PushProjected == push_pc \notin {"Start", "Failed", "Loaded"}

\* the disk as the write before the push left it
WrittenDisk == ApplyOps(EmptyDisk, write_to_disk(doc_cls, doc, Parent))

\* C3: push_object sends a PATCH only when the two modifiable projections
\* differ and the user has confirmed; once confirmed it has sent exactly
\* one, for local.id, whose payload is the modifiable projection of local
\* that was compared and shown as the tofile of the diff.
C3_ConfirmationGated ==
    /\ PatchRequests # <<>> => (confirmed = "yes" /\ local_doc # remote_doc)
    /\ confirmed = "yes" =>
          /\ Len(PatchRequests) = 1
          /\ PatchRequests[1] = PatchOne(local.id, local_doc)
          /\ echoed[Len(echoed)].tofile = local_doc
          /\ ModifiableProjectionOf(coll_cls, local, local_doc)

\* a confirmed push of an experiment with a variation, accepted by the service
C3_Witness ==
    /\ push_pc = "Applied"
    /\ doc_cls = "Experiment"
    /\ Len(local.variations) = 1
    /\ Len(PatchRequests) = 1
    /\ confirmed = "yes"

\* C4: when the two modifiable projections are equal, push_object echoes
\* "No changes!" and stops: it never asks for confirmation and sends no
\* request after the one that fetched remote.
C4_NoChange ==
    /\ []((PushProjected /\ local_doc = remote_doc) =>
            /\ push_pc \in {"Compared", "NoOp"}
            /\ confirmed = "unasked"
            /\ requests = <<GetOne(local.id)>>
            /\ push_pc = "NoOp" => echoed = <<[text |-> "No changes!"]>>)
    /\ [][(push_pc = "Compared" /\ local_doc = remote_doc) => push_pc' = "NoOp"]_vars

\* local and remote differ in a read-only field only
C4_Witness ==
    /\ push_pc = "NoOp"
    /\ local # remote
    /\ local_doc = remote_doc
    /\ echoed = <<[text |-> "No changes!"]>>

\* C5 as stated: a push that has loaded local and remote ends in NoOp,
\* Applied or Cancelled.
C5_TerminalStates ==
    (PushLoaded /\ ~ENABLED NextPush) => push_pc \in {"NoOp", "Applied", "Cancelled"}

\* one step of a push that has loaded local and remote
C5_Step ==
    /\ push_pc = "Loaded" => push_pc' = "Compared"
    /\ push_pc = "Compared" =>
          push_pc' = IF local_doc = remote_doc THEN "NoOp" ELSE "AwaitingConfirmation"
    /\ push_pc = "AwaitingConfirmation" =>
          \/ push_pc' = "Applied" /\ confirmed' = "yes" /\ response'.ok /\ ret'.ok
          \/ /\ push_pc' = "Rejected" /\ confirmed' = "yes"
             /\ ~response'.ok /\ ~ret'.ok /\ ret'.err = "HTTPError"
          \/ push_pc' = "Cancelled" /\ confirmed' = "no"
    /\ push_pc \notin {"NoOp", "Applied", "Rejected", "Cancelled", "Failed"}

\* C5: a push that has loaded local and remote moves Loaded -> Compared ->
\* (NoOp when the projections are equal, else AwaitingConfirmation) ->
\* (Applied on yes when the service accepts the update, Rejected with the
\* HTTPError raised on yes when it does not, Cancelled on no); each state
\* before a terminal one has a next step and a terminal state has none;
\* Cancelled has sent no PATCH, left the disk as it was and raised nothing.
C5_PushStateMachine ==
    /\ [][C5_Step]_vars
    /\ [](push_pc \in {"Loaded", "Compared", "AwaitingConfirmation"} => ENABLED NextPush)
    /\ [](push_pc = "Cancelled" =>
            /\ PatchRequests = <<>>
            /\ dirs = WrittenDisk.dirs
            /\ files = WrittenDisk.files
            /\ ret = NoCall)

\* a declined confirmation after a diff
C5_Witness ==
    /\ push_pc = "Cancelled"
    /\ confirmed = "no"
    /\ Len(echoed) = 1
    /\ echoed[1].text = "diff"
    /\ echoed[1].fromfile # echoed[1].tofile

-----------------------------------------------------------------------------
(* Properties of the files and directories of a document                   *)

\* the fields of a class that StaticContentSerializer stores
StaticFields(cls) ==
    {n \in FieldNames(cls) :
        Field(cls, n).kind = "serializer" /\ Field(cls, n).of = "StaticContentSerializer"}

\* the extension by the table custom_css, custom_code, insert_html, and
\* activation_code, project_javascript for a class without type
StatedExtension(cls, obj, fieldname) ==
    IF "type" \in FieldNames(cls)
    THEN IF obj.type = <<"custom_css">> THEN "css"
         ELSE IF obj.type = <<"custom_code">> THEN "js"
         ELSE IF obj.type = <<"insert_html">> THEN "html"
         ELSE "txt"
    ELSE IF fieldname \in {"activation_code", "project_javascript"} THEN "js" ELSE "txt"

\* the same table with insert_image beside insert_html
ExtensionWithImage(cls, obj, fieldname) ==
    IF "type" \in FieldNames(cls) /\ obj.type = <<"insert_image">> THEN "html"
    ELSE StatedExtension(cls, obj, fieldname)

\* the files directly in root whose name starts with fieldname
FilesOfField(root, fieldname) ==
    {p \in DOMAIN files :
        /\ Len(p) = Len(root) + 1
        /\ SubSeq(p, 1, Len(root)) = root
        /\ p[Len(p)][1] = fieldname}

\* C11 as stated: the file of a static content field is fieldName.ext with
\* ext css, js, html for the types custom_css, custom_code, insert_html, js
\* for activation_code and project_javascript of a class without type, and
\* txt for every other type.
C11_StatedFileName ==
    doc_pc \in {"written", "read"} =>
        \A n \in StaticFields(doc_cls) :
            doc[n] # None =>
                FilesOfField(Docroot(doc_cls, doc, Parent), n) =
                    {Join(Docroot(doc_cls, doc, Parent),
                          <<n, ".", StatedExtension(doc_cls, doc, n)>>)}

\* C11: the file of a static content field is fieldName.ext with ext css for
\* custom_css, js for custom_code, html for insert_html and insert_image, js
\* for activation_code and project_javascript of a class without type, txt
\* otherwise; the read that follows the write computes the same name.
C11_FileName ==
    /\ doc_pc \in {"written", "read"} =>
          \A n \in StaticFields(doc_cls) :
              doc[n] # None =>
                  FilesOfField(Docroot(doc_cls, doc, Parent), n) =
                      {Join(Docroot(doc_cls, doc, Parent),
                            <<n, ".", ExtensionWithImage(doc_cls, doc, n)>>)}
    /\ (doc_pc = "read" /\ read_result.ok) =>
          \A n \in StaticFields(doc_cls) :
              /\ StaticContentSerializer_filename(Docroot(doc_cls, doc, Parent), doc_cls,
                                                  read_result.val, n)
                   = StaticContentSerializer_filename(Docroot(doc_cls, doc, Parent), doc_cls,
                                                      doc, n)
              /\ read_result.val[n] = doc[n]

\* an insert_image change whose value was written and read back
C11_Witness ==
    /\ doc_cls = "Change"
    /\ doc.type = <<"insert_image">>
    /\ doc.value # None
    /\ doc_pc = "read"
    /\ read_result.ok
    /\ read_result.val.value = doc.value

CollectionFields(cls) == {n \in FieldNames(cls) : Field(cls, n).kind = "collection"}

\* the names the metadata file of root records for the collection n
RecordedNames(root, n) == files[Join(root, META_FILE)][n]

\* the recorded names that are directories of the collection n, in the
\* order recorded
PresentNames(root, n) ==
    SelectSeq(RecordedNames(root, n), LAMBDA d : Join(Join(root, <<n>>), d) \in dirs)

\* C12: when the subdirectory of a collection field exists, read_from_disk
\* returns one child per recorded name that is a directory, in the order
\* the metadata file records the names, each read from the directory of
\* its name; names that are no directory are skipped and directories that
\* are not recorded are not read.
C12_ReadOrder ==
    (doc_pc \in {"read", "reread", "read_edited"} /\ read_result.ok) =>
        \A n \in CollectionFields(doc_cls) :
            Join(Docroot(doc_cls, doc, Parent), <<n>>) \in dirs =>
                /\ Len(read_result.val[n]) =
                       Len(PresentNames(Docroot(doc_cls, doc, Parent), n))
                /\ \A i \in DOMAIN read_result.val[n] :
                       read_result.val[n][i] =
                           read_from_disk(Disk, Field(doc_cls, n).of,
                               Join(Join(Docroot(doc_cls, doc, Parent), <<n>>),
                                    PresentNames(Docroot(doc_cls, doc, Parent), n)[i])).val

\* two names recorded, the directory of the first removed by the user: the
\* read returns the child of the second only
C12_Witness ==
    /\ doc_pc = "read_edited"
    /\ doc_cls = "Action"
    /\ read_result.ok
    /\ Len(RecordedNames(Docroot(doc_cls, doc, Parent), "changes")) = 2
    /\ Len(PresentNames(Docroot(doc_cls, doc, Parent), "changes")) = 1
    /\ PresentNames(Docroot(doc_cls, doc, Parent), "changes")[1] =
          RecordedNames(Docroot(doc_cls, doc, Parent), "changes")[2]
    /\ Len(read_result.val.changes) = 1

-----------------------------------------------------------------------------
(* Properties of the cache of LazyCollection                               *)

\* C13: between calls the cache is present only after a call of items()
\* that fetched every page without failure; after a call of items() that
\* failed, the next one sends requests again, and a lookup is answered from
\* the cache only when such a complete call came before.
C13_CachePresence ==
    /\ (coll_pc = "idle" /\ ~_items.is_none) =>
          \E i \in DOMAIN items_log : items_log[i].ok /\ items_log[i].gets # <<>>
    /\ \A i \in 2..Len(items_log) :
          ~items_log[i - 1].ok => items_log[i].gets # <<>>
    /\ (ret.op = "getitem" /\ ret.ok /\ requests = <<>>) =>
          \E i \in DOMAIN items_log : items_log[i].ok /\ items_log[i].gets # <<>>

\* C14: whatever relations the link headers carry and in whatever order,
\* a call of items() requests no page twice, so it sends at most as many
\* requests as the server has pages, and a call that returns has requested
\* the pages 1..N in this order, skipping none.
C14_PaginationTerminates ==
    /\ coll_pc = "fetching" =>
          /\ Len(requests) <= Len(remote_pages)
          /\ \A i, j \in DOMAIN requests :
                requests[i].page = requests[j].page => i = j
    /\ \A i \in DOMAIN items_log :
          (items_log[i].ok /\ items_log[i].gets # <<>>) =>
              items_log[i].gets = [k \in 1..Len(items_log[i].served) |-> k]

-----------------------------------------------------------------------------
(* Properties of the order in which write_to_disk fills a directory        *)

\* the resource and the resources below it, each with its class and the
\* directory it is written into
RECURSIVE Nodes(_, _, _)
Nodes(cls, obj, root) ==
    LET docroot == Docroot(cls, obj, root)
        below(n) ==
            LET f == Field(cls, n)
            IN IF f.kind = "collection"
               THEN UNION {Nodes(f.of, obj[n][i], Join(docroot, <<n>>)) : i \in DOMAIN obj[n]}
               ELSE IF f.kind = "subdocument"
               THEN Nodes(f.of, obj[n], Join(docroot, <<n>>))
               ELSE {}
    IN {[cls |-> cls, obj |-> obj, root |-> root]}
       \cup UNION {below(n) : n \in FieldNames(cls)}

\* every directory and file of ops is on the disk
OnDisk(fs, ops) ==
    \A i \in DOMAIN ops :
        IF ops[i].op = "mkdir" THEN is_dir(fs, ops[i].path)
        ELSE ops[i].path \in DOMAIN fs.files

HasMeta(fs, root) == Join(root, META_FILE) \in DOMAIN fs.files

\* C15: at every point of a write into an empty parent, (a) when sibling
\* children have distinct directory names, the metadata file of a resource
\* is on disk only when every directory and file of the resource is: those
\* of its children and subdocuments, with their metadata files, and its
\* external content files; (b) every metadata file on disk lists, for each
\* collection, only directories that exist and hold a metadata file.
C15_BottomUpWrite ==
    \A node \in Nodes(doc_cls, doc, Parent) :
        LET docroot == Docroot(node.cls, node.obj, node.root)
        IN HasMeta(Disk, docroot) =>
             /\ DistinctSiblings(doc_cls, doc) =>
                   OnDisk(Disk, write_to_disk(node.cls, node.obj, node.root))
             /\ \A n \in CollectionFields(node.cls) :
                   \A i \in DOMAIN RecordedNames(docroot, n) :
                      LET child == Join(Join(docroot, <<n>>), RecordedNames(docroot, n)[i])
                      IN is_dir(Disk, child) /\ HasMeta(Disk, child)

\* in the middle of the write of an action with two changes: the first
\* change lies on disk with its content file and its metadata file, the
\* directory of the second does not exist yet, and the action has no
\* metadata file
C15_Witness ==
    /\ doc_pc = "writing"
    /\ doc_cls = "Action"
    /\ Len(doc.changes) = 2
    /\ LET docroot == Docroot(doc_cls, doc, Parent)
           first == Join(Join(docroot, <<"changes">>), dirname("Change", doc.changes[1]))
           second == Join(Join(docroot, <<"changes">>), dirname("Change", doc.changes[2]))
       IN /\ HasMeta(Disk, first)
          /\ \E p \in DOMAIN files : p # Join(first, META_FILE) /\ IsPrefix(first, p)
          /\ ~is_dir(Disk, second)
          /\ ~HasMeta(Disk, docroot)

-----------------------------------------------------------------------------
(* Properties of a second write into the same directory                    *)

\* C16: after a resource r1 and then a resource r2 of the same directory
\* name are written into the same parent (sibling children of distinct
\* directory names), the directory is read without error and the resource
\* read equals r2 on every field: a field that is None in r2 is None, and
\* a collection holds the children of r2 and no others.
C16_LatestWrite ==
    (doc_pc = "reread" /\ DistinctSiblings(doc_cls, doc))
        => (read_result.ok /\ read_result.val = doc)

-----------------------------------------------------------------------------
(* Properties of LazyCollection.__setitem__                                *)

\* the entries a call of items() returned, as a cache
ListingOf(e) == [is_none |-> FALSE, entries |-> e.val]

\* C17: an update, accepted or rejected, leaves the cache as it was; once a
\* call of items() has filled the cache, every later call of items() that
\* is answered without a request returns the listing the first call
\* returned, and every lookup answered without a request returns the entry
\* of that listing, whatever updates the service has accepted since.
C17_UpdateKeepsCache ==
    /\ [][ret'.op = "setitem" => _items' = _items]_vars
    /\ []((Len(items_log) >= 1 /\ items_log[1].ok) =>
            /\ \A i \in 2..Len(items_log) :
                  items_log[i].gets = <<>> => items_log[i].val = items_log[1].val
            /\ (ret.op = "getitem" /\ ret.ok /\ requests = <<>>) =>
                  /\ HasKey(ListingOf(items_log[1]), ret.key)
                  /\ ret.val = GetKey(ListingOf(items_log[1]), ret.key))

\* the service has accepted an update of item 1 since the listing was
\* fetched; a second items() was answered from the cache with the listing
\* of the first, and the last lookup of item 1 sent no request and returned
\* the resource as it was before the update
C17_Witness ==
    /\ Len(items_log) = 2
    /\ items_log[1].ok
    /\ items_log[2].gets = <<>>
    /\ items_log[2].val = items_log[1].val
    /\ ret.op = "getitem"
    /\ ret.ok
    /\ requests = <<>>
    /\ HasDoc(remote_pages, ret.key)
    /\ DocOf(remote_pages, ret.key).name = <<"z">>
    /\ ret.val.name # <<"z">>
    /\ remote_pages # items_log[1].served

====
